---- MODULE Spec2Model ----
(***************************************************************************)
(* The free-fly camera of includes/learnopengl/camera.h as a state machine. *)
(*                                                                         *)
(* Every C++ float is an integer count of 1/S (S = 1000), and every        *)
(* arithmetic result is rounded to MantBits significant bits, round to     *)
(* nearest, ties to even: binary32 with a narrower significand, so that    *)
(* the absorption of a small addend by a large sum happens within TLC's    *)
(* 32-bit integers.  A vector is a record [x, y, z, nan]; nan stands for   *)
(* the three components being NaN (0 * inf in glm::normalize).             *)
(***************************************************************************)
EXTENDS Integers, Sequences

S == 1000
MantBits == 16

\* Bound of the exploration: the number of calls made on the camera.
MaxCalls == 2

----------------------------------------------------------------------------
(* float arithmetic *)

Abs(n) == IF n < 0 THEN -n ELSE n
Sgn(n) == IF n < 0 THEN -1 ELSE 1
Min(a, b) == IF a < b THEN a ELSE b
Max(a, b) == IF a > b THEN a ELSE b

\* Spacing of the representable values around the magnitude a.
RECURSIVE Ulp(_)
Ulp(a) == IF a < 2^MantBits THEN 1 ELSE 2 * Ulp(a \div 2)

\* The rational num/den (den > 0) rounded to the nearest multiple of q,
\* ties to the even multiple.
RoundTo(num, den, q) ==
    LET a == Abs(num)
        d == den * q
        k == a \div d
        r == a % d
        m == IF 2 * r < d THEN k
             ELSE IF 2 * r > d THEN k + 1
             ELSE IF k % 2 = 0 THEN k ELSE k + 1
    IN  Sgn(num) * m * q

\* The rational num/den rounded to the nearest representable float.
Fl(num, den) == RoundTo(num, den, Ulp(Abs(num) \div den))

FAdd(a, b) == Fl(a + b, 1)
FSub(a, b) == Fl(a - b, 1)
FMul(a, b) == Fl(a * b, S)

\* Integer square root (floor), by Newton's iteration from above.
RECURSIVE IsqrtFrom(_, _)
IsqrtFrom(n, x) ==
    LET y == (x + n \div x) \div 2
    IN  IF y >= x THEN x ELSE IsqrtFrom(n, y)
Isqrt(n) == IF n = 0 THEN 0 ELSE IsqrtFrom(n, n)

----------------------------------------------------------------------------
(* glm::vec3 *)

Vec(x, y, z) == [x |-> x, y |-> y, z |-> z, nan |-> FALSE]
NaNVec == [x |-> 0, y |-> 0, z |-> 0, nan |-> TRUE]

\* operator+, operator-, operator*(vec3, float)
VAdd(a, b) ==
    IF a.nan \/ b.nan THEN NaNVec
    ELSE Vec(FAdd(a.x, b.x), FAdd(a.y, b.y), FAdd(a.z, b.z))
VSub(a, b) ==
    IF a.nan \/ b.nan THEN NaNVec
    ELSE Vec(FSub(a.x, b.x), FSub(a.y, b.y), FSub(a.z, b.z))
VScale(a, s) ==
    IF a.nan THEN NaNVec
    ELSE Vec(FMul(a.x, s), FMul(a.y, s), FMul(a.z, s))

\* glm::cross.  The components are the exact products, in units of 1/(S*S);
\* the code hands every cross product to glm::normalize, which is
\* independent of the scale.
cross(a, b) ==
    IF a.nan \/ b.nan THEN NaNVec
    ELSE Vec(a.y * b.z - b.y * a.z,
             a.z * b.x - b.z * a.x,
             a.x * b.y - b.x * a.y)

\* glm::dot of two vectors in units of 1/S, in units of 1/(S*S).
dot(a, b) == a.x * b.x + a.y * b.y + a.z * b.z

\* glm::normalize: v * inversesqrt(dot(v, v)).  A zero vector gives
\* 0 * inf = NaN in every component.  The vector is first brought to a
\* magnitude of about NormScale, whatever its unit, so that the relative
\* precision of the result does not depend on the magnitude (as with floats);
\* the result is in units of 1/S.
NormScale == 20000
normalize(v) ==
    IF v.nan THEN NaNVec
    ELSE LET m == Max(Abs(v.x), Max(Abs(v.y), Abs(v.z)))
         IN  IF m = 0 THEN NaNVec
             ELSE LET up   == IF m <= NormScale THEN NormScale \div m ELSE 1
                      down == IF m <= NormScale THEN 1 ELSE (m \div NormScale) + 1
                      w    == Vec(RoundTo(v.x * up, down, 1),
                                  RoundTo(v.y * up, down, 1),
                                  RoundTo(v.z * up, down, 1))
                      len  == Isqrt(dot(w, w))
                  IN  Vec(RoundTo(w.x * S, len, 1),
                          RoundTo(w.y * S, len, 1),
                          RoundTo(w.z * S, len, 1))

----------------------------------------------------------------------------
(* cos(glm::radians(d)) and sin(glm::radians(d)) *)

\* 1000 * sin of 0, 1, ..., 90 degrees.
SinTab ==
    << 0, 17, 35, 52, 70, 87, 105, 122, 139, 156, 174, 191, 208,
       225, 242, 259, 276, 292, 309, 326, 342, 358, 375, 391, 407, 423,
       438, 454, 469, 485, 500, 515, 530, 545, 559, 574, 588, 602, 616,
       629, 643, 656, 669, 682, 695, 707, 719, 731, 743, 755, 766, 777,
       788, 799, 809, 819, 829, 839, 848, 857, 866, 875, 883, 891, 899,
       906, 914, 921, 927, 934, 940, 946, 951, 956, 961, 966, 970, 974,
       978, 982, 985, 988, 990, 993, 995, 996, 998, 999, 999, 1000, 1000 >>

\* Sine of an angle of the first quadrant (0 <= a <= 90 * S, in degrees / S),
\* linear between the whole degrees.
SinQ(a) ==
    LET d == a \div S
        t == a % S
    IN  IF t = 0 THEN SinTab[d + 1]
        ELSE RoundTo(SinTab[d + 1] * (S - t) + SinTab[d + 2] * t, S, 1)

\* sin(glm::radians(a)): any angle, by the symmetries of the sine.
SinDeg(a) ==
    LET m == a % (360 * S)
    IN  IF m <= 90 * S THEN SinQ(m)
        ELSE IF m <= 180 * S THEN SinQ(180 * S - m)
        ELSE IF m <= 270 * S THEN -SinQ(m - 180 * S)
        ELSE -SinQ(360 * S - m)

\* cos(glm::radians(a))
CosDeg(a) == SinDeg(a + 90 * S)

----------------------------------------------------------------------------
(* camera.h *)

\* The default yaw with its sign lost.
YAW_Positive == 90 * S

\* Default camera values
YAW == -90 * S
PITCH == 0
SPEED == (5 * S) \div 2
SENSITIVITY == S \div 10
ZOOM == 45 * S

\* The limits of the two clamps.
PitchLimit == 89 * S
ZoomMin == 1 * S
ZoomMax == 45 * S

\* _EulerAnglesRotate: the new front, before normalisation.  The components
\* are the exact products, in units of 1/(S*S); the code hands them to
\* glm::normalize.
EulerAnglesRotate(yaw, pitch) ==
    Vec(CosDeg(yaw) * CosDeg(pitch),
        SinDeg(pitch) * S,
        SinDeg(yaw) * CosDeg(pitch))

\* updateCameraVectors deriving Up from WorldUp instead of Front.
updateCameraVectors_UpFromWorldUp(c) ==
    LET front == normalize(EulerAnglesRotate(c.Yaw, c.Pitch))
        right == normalize(cross(front, c.WorldUp))
        up    == normalize(cross(right, c.WorldUp))
    IN  [c EXCEPT !.Front = front, !.Right = right, !.Up = up]

\* Camera::updateCameraVectors on the camera c: Front from the Euler angles,
\* then Right from Front and WorldUp, then Up from Right and Front.
updateCameraVectors(c) ==
    LET front == normalize(EulerAnglesRotate(c.Yaw, c.Pitch))
        right == normalize(cross(front, c.WorldUp))
        up    == normalize(cross(right, front))
    IN  [c EXCEPT !.Front = front, !.Right = right, !.Up = up]

\* The default arguments of the constructor with vectors.
DefaultPosition == Vec(0, 0, 0)
DefaultUp == Vec(0, S, 0)

\* Camera::Camera(glm::vec3 position, glm::vec3 up, float yaw, float pitch).
\* Up and Right have no value before updateCameraVectors assigns them.
Camera(position, up, yaw, pitch) ==
    updateCameraVectors(
        [Position         |-> position,
         Front            |-> Vec(0, 0, -S),
         Up               |-> NaNVec,
         Right            |-> NaNVec,
         WorldUp          |-> up,
         Yaw              |-> yaw,
         Pitch            |-> pitch,
         MovementSpeed    |-> SPEED,
         MouseSensitivity |-> SENSITIVITY,
         Zoom             |-> ZOOM])

\* Camera::Camera(float posX, ..., float upX, ..., float yaw, float pitch)
CameraScalars(posX, posY, posZ, upX, upY, upZ, yaw, pitch) ==
    updateCameraVectors(
        [Position         |-> Vec(posX, posY, posZ),
         Front            |-> Vec(0, 0, -S),
         Up               |-> NaNVec,
         Right            |-> NaNVec,
         WorldUp          |-> Vec(upX, upY, upZ),
         Yaw              |-> yaw,
         Pitch            |-> pitch,
         MovementSpeed    |-> SPEED,
         MouseSensitivity |-> SENSITIVITY,
         Zoom             |-> ZOOM])

\* Camera::GetViewMatrix: the eye, centre and up handed to glm::lookAt.
GetViewMatrix(c) ==
    [eye |-> c.Position, center |-> VAdd(c.Position, c.Front), up |-> c.Up]

\* ProcessKeyboard moving by deltaTime alone, MovementSpeed left out.
ProcessKeyboard_NoSpeed(c, direction, deltaTime) ==
    LET velocity == deltaTime
        p == IF direction = "FORWARD" THEN VAdd(c.Position, VScale(c.Front, velocity))
             ELSE IF direction = "BACKWARD" THEN VSub(c.Position, VScale(c.Front, velocity))
             ELSE IF direction = "LEFT" THEN VSub(c.Position, VScale(c.Right, velocity))
             ELSE VAdd(c.Position, VScale(c.Right, velocity))
    IN  [c EXCEPT !.Position = p]

\* ProcessKeyboard stepping BACKWARD along Right instead of Front.
ProcessKeyboard_BackAlongRight(c, direction, deltaTime) ==
    LET velocity == FMul(c.MovementSpeed, deltaTime)
        p == IF direction = "FORWARD" THEN VAdd(c.Position, VScale(c.Front, velocity))
             ELSE IF direction = "BACKWARD" THEN VSub(c.Position, VScale(c.Right, velocity))
             ELSE IF direction = "LEFT" THEN VSub(c.Position, VScale(c.Right, velocity))
             ELSE VAdd(c.Position, VScale(c.Right, velocity))
    IN  [c EXCEPT !.Position = p]

\* Camera::ProcessKeyboard
ProcessKeyboard(c, direction, deltaTime) ==
    LET velocity == FMul(c.MovementSpeed, deltaTime)
        p1 == IF direction = "FORWARD"
              THEN VAdd(c.Position, VScale(c.Front, velocity)) ELSE c.Position
        p2 == IF direction = "BACKWARD"
              THEN VSub(p1, VScale(c.Front, velocity)) ELSE p1
        p3 == IF direction = "LEFT"
              THEN VSub(p2, VScale(c.Right, velocity)) ELSE p2
        p4 == IF direction = "RIGHT"
              THEN VAdd(p3, VScale(c.Right, velocity)) ELSE p3
    IN  [c EXCEPT !.Position = p4]

\* The clamp with the test against -89 left out.
ConstrainPitch_UpperOnly(pitch) ==
    IF pitch > PitchLimit THEN PitchLimit ELSE pitch

\* The clamp of ProcessMouseMovement: the two tests, one after the other.
ConstrainPitch(pitch) ==
    LET p1 == IF pitch > PitchLimit THEN PitchLimit ELSE pitch
    IN  IF p1 < -PitchLimit THEN -PitchLimit ELSE p1

\* ProcessMouseMovement returning without updateCameraVectors.
ProcessMouseMovement_NoUpdate(c, xoffset, yoffset, constrainPitch) ==
    LET yaw   == FAdd(c.Yaw, FMul(xoffset, c.MouseSensitivity))
        pitch == FAdd(c.Pitch, FMul(yoffset, c.MouseSensitivity))
    IN  [c EXCEPT !.Yaw = yaw,
                  !.Pitch = IF constrainPitch THEN ConstrainPitch(pitch)
                            ELSE pitch]

\* ProcessMouseMovement keeping yaw within [0, 360).
ProcessMouseMovement_WrapYaw(c, xoffset, yoffset, constrainPitch) ==
    LET yaw   == FAdd(c.Yaw, FMul(xoffset, c.MouseSensitivity)) % (360 * S)
        pitch == FAdd(c.Pitch, FMul(yoffset, c.MouseSensitivity))
    IN  updateCameraVectors(
            [c EXCEPT !.Yaw = yaw,
                      !.Pitch = IF constrainPitch THEN ConstrainPitch(pitch)
                                ELSE pitch])

\* Camera::ProcessMouseMovement
ProcessMouseMovement(c, xoffset, yoffset, constrainPitch) ==
    LET xo    == FMul(xoffset, c.MouseSensitivity)
        yo    == FMul(yoffset, c.MouseSensitivity)
        yaw   == FAdd(c.Yaw, xo)
        pitch == FAdd(c.Pitch, yo)
    IN  updateCameraVectors(
            [c EXCEPT !.Yaw = yaw,
                      !.Pitch = IF constrainPitch THEN ConstrainPitch(pitch)
                                ELSE pitch])

\* The clamp with the test against 45 left out.
ClampZoom_LowerOnly(zoom) ==
    IF zoom < ZoomMin THEN ZoomMin ELSE zoom

\* The clamp of ProcessMouseScroll: the two tests, one after the other.
ClampZoom(zoom) ==
    LET z1 == IF zoom < ZoomMin THEN ZoomMin ELSE zoom
    IN  IF z1 > ZoomMax THEN ZoomMax ELSE z1

\* ProcessMouseScroll adding the offset instead of subtracting it.
ProcessMouseScroll_Add(c, yoffset) ==
    [c EXCEPT !.Zoom = ClampZoom(FAdd(c.Zoom, yoffset))]

\* ProcessMouseScroll scaling MovementSpeed along with the zoom.
ProcessMouseScroll_Speed(c, yoffset) ==
    [c EXCEPT !.Zoom = ClampZoom(FSub(c.Zoom, yoffset)),
              !.MovementSpeed = FSub(c.MovementSpeed, yoffset)]

\* Camera::ProcessMouseScroll
ProcessMouseScroll(c, yoffset) ==
    [c EXCEPT !.Zoom = ClampZoom(FSub(c.Zoom, yoffset))]

----------------------------------------------------------------------------
(* the state machine *)

VARIABLES
    Position, Front, Up, Right, WorldUp,   \* camera attributes
    Yaw, Pitch,                            \* EulerAngles
    MovementSpeed, MouseSensitivity, Zoom, \* camera options
    ctor,                                  \* the constructor call that built the camera
    hist                                   \* the calls made since, each with the
                                           \* camera before it and its result

vars == << Position, Front, Up, Right, WorldUp, Yaw, Pitch,
           MovementSpeed, MouseSensitivity, Zoom, ctor, hist >>

\* The camera object.
This ==
    [Position         |-> Position,
     Front            |-> Front,
     Up               |-> Up,
     Right            |-> Right,
     WorldUp          |-> WorldUp,
     Yaw              |-> Yaw,
     Pitch            |-> Pitch,
     MovementSpeed    |-> MovementSpeed,
     MouseSensitivity |-> MouseSensitivity,
     Zoom             |-> Zoom]

\* The fields of the state are those of the camera c.
IsCamera(c) ==
    /\ Position = c.Position
    /\ Front = c.Front
    /\ Up = c.Up
    /\ Right = c.Right
    /\ WorldUp = c.WorldUp
    /\ Yaw = c.Yaw
    /\ Pitch = c.Pitch
    /\ MovementSpeed = c.MovementSpeed
    /\ MouseSensitivity = c.MouseSensitivity
    /\ Zoom = c.Zoom

Becomes(c) ==
    /\ Position' = c.Position
    /\ Front' = c.Front
    /\ Up' = c.Up
    /\ Right' = c.Right
    /\ WorldUp' = c.WorldUp
    /\ Yaw' = c.Yaw
    /\ Pitch' = c.Pitch
    /\ MovementSpeed' = c.MovementSpeed
    /\ MouseSensitivity' = c.MouseSensitivity
    /\ Zoom' = c.Zoom

\* Arguments of the calls.
Origin == Vec(0, 0, 0)
AxisY == Vec(0, S, 0)
AxisX == Vec(S, 0, 0)
Positions == {Origin, Vec(0, 0, 3 * S + 1)}
WorldUps == {AxisY, AxisX}
Yaws == {YAW, 0}
Pitches == {PITCH, 120 * S}
Directions == {"FORWARD", "BACKWARD", "LEFT", "RIGHT"}
DeltaTimes == {S, 28 * S + 1}
XOffsets == {0, 900 * S}
YOffsets == {-10000 * S, 10 * S, 10000 * S}
Scrolls == {-100 * S, 3 * S, 100 * S}

NoView == [eye |-> Origin, center |-> Origin, up |-> Origin]

Call(op, direction, deltaTime, xoffset, yoffset, constrainPitch, view) ==
    [op |-> op, direction |-> direction, deltaTime |-> deltaTime,
     xoffset |-> xoffset, yoffset |-> yoffset,
     constrainPitch |-> constrainPitch, pre |-> This, view |-> view]

Init ==
    /\ hist = << >>
    /\ \/ /\ ctor = [kind |-> "default", position |-> DefaultPosition,
                       up |-> DefaultUp, yaw |-> YAW, pitch |-> PITCH]
          /\ IsCamera(Camera(DefaultPosition, DefaultUp, YAW, PITCH))
       \/ \E position \in Positions, up \in WorldUps, yaw \in Yaws, pitch \in Pitches :
            /\ ctor = [kind |-> "vectors", position |-> position, up |-> up,
                       yaw |-> yaw, pitch |-> pitch]
            /\ IsCamera(Camera(position, up, yaw, pitch))
       \/ \E position \in Positions, up \in WorldUps, yaw \in {YAW}, pitch \in {PITCH} :
            /\ ctor = [kind |-> "scalars", position |-> position, up |-> up,
                       yaw |-> yaw, pitch |-> pitch]
            /\ IsCamera(CameraScalars(position.x, position.y, position.z,
                                      up.x, up.y, up.z, yaw, pitch))

DoGetViewMatrix ==
    /\ Len(hist) < MaxCalls
    /\ hist' = Append(hist, Call("GetViewMatrix", "FORWARD", 0, 0, 0, FALSE,
                                 GetViewMatrix(This)))
    /\ UNCHANGED << Position, Front, Up, Right, WorldUp, Yaw, Pitch,
                    MovementSpeed, MouseSensitivity, Zoom, ctor >>

DoProcessKeyboard ==
    /\ Len(hist) < MaxCalls
    /\ \E direction \in Directions, deltaTime \in DeltaTimes :
        /\ Becomes(ProcessKeyboard(This, direction, deltaTime))
        /\ hist' = Append(hist, Call("ProcessKeyboard", direction, deltaTime,
                                     0, 0, FALSE, NoView))
    /\ UNCHANGED ctor

DoProcessMouseMovement ==
    /\ Len(hist) < MaxCalls
    /\ \E xoffset \in XOffsets, yoffset \in YOffsets, constrainPitch \in BOOLEAN :
        /\ Becomes(ProcessMouseMovement(This, xoffset, yoffset, constrainPitch))
        /\ hist' = Append(hist, Call("ProcessMouseMovement", "FORWARD", 0,
                                     xoffset, yoffset, constrainPitch, NoView))
    /\ UNCHANGED ctor

DoProcessMouseScroll ==
    /\ Len(hist) < MaxCalls
    /\ \E yoffset \in Scrolls :
        /\ Becomes(ProcessMouseScroll(This, yoffset))
        /\ hist' = Append(hist, Call("ProcessMouseScroll", "FORWARD", 0,
                                     0, yoffset, FALSE, NoView))
    /\ UNCHANGED ctor

Next ==
    \/ DoGetViewMatrix
    \/ DoProcessKeyboard
    \/ DoProcessMouseMovement
    \/ DoProcessMouseScroll

Spec == Init /\ [][Next]_vars

----------------------------------------------------------------------------
(* properties *)

\* Tolerance of the orthonormality tests, in units of 1/S.
Tol == 2

\* The last call made, and the one before it.
Last == hist[Len(hist)]
Before == hist[Len(hist) - 1]
Called(op) == Len(hist) > 0 /\ Last.op = op

InRange(lo, v, hi) == lo <= v /\ v <= hi

\* v has magnitude 1 within the tolerance.
IsUnit(v) == ~v.nan /\ Abs(dot(v, v) - S * S) <= 2 * Tol * S
\* a and b are orthogonal within the tolerance.
IsOrthogonal(a, b) == ~a.nan /\ ~b.nan /\ Abs(dot(a, b)) <= Tol * S
IsOrthonormal(f, r, u) ==
    /\ IsUnit(f) /\ IsUnit(r) /\ IsUnit(u)
    /\ IsOrthogonal(f, r) /\ IsOrthogonal(f, u) /\ IsOrthogonal(r, u)

\* C1: when ProcessMouseMovement was called with constrainPitch = true,
\* whatever the pitch before it and whatever the offsets, the pitch is within
\* [-89, 89] when the call has returned.
C1_ConstrainedPitchInRange ==
    (Called("ProcessMouseMovement") /\ Last.constrainPitch)
        => InRange(-89 * S, Pitch, 89 * S)

\* A constrained call that found the pitch above 89 (left there by the
\* constructor or by an unconstrained call) and, given yoffset = -10000,
\* left it at -89.
C1_Witness ==
    /\ Called("ProcessMouseMovement") /\ Last.constrainPitch
    /\ Last.pre.Pitch > 89 * S
    /\ Last.yoffset = -10000 * S
    /\ Pitch = -89 * S

\* C2: in every state reachable from construction by any sequence of calls,
\* zoom is within [1, 45].
C2_ZoomInRange == InRange(1 * S, Zoom, 45 * S)

\* Two scrolls of +100 in a row: the zoom sits at 1.
C2_Witness ==
    /\ Len(hist) >= 2
    /\ Last.op = "ProcessMouseScroll" /\ Last.yoffset = 100 * S
    /\ Before.op = "ProcessMouseScroll" /\ Before.yoffset = 100 * S
    /\ Zoom = 1 * S

\* C3 as stated: after the constructors and after every call, front, right
\* and up are mutually orthogonal unit vectors, within the tolerance.
C3_AlwaysOrthonormal == IsOrthonormal(Front, Right, Up)

\* C3 as amended: front is always a unit vector; whenever front is not
\* parallel to world_up (their cross product is not zero), front, right and
\* up are mutually orthogonal unit vectors, within the tolerance; and when it
\* is parallel, right and up are NaN.
C3_OrthonormalUnlessParallel ==
    /\ IsUnit(Front)
    /\ cross(Front, WorldUp) # Vec(0, 0, 0) => IsOrthonormal(Front, Right, Up)
    /\ cross(Front, WorldUp) = Vec(0, 0, 0) => Right.nan /\ Up.nan

\* An unconstrained mouse movement that left the pitch outside [-89, 89],
\* with an orthonormal basis.
C3_Witness ==
    /\ Called("ProcessMouseMovement") /\ ~Last.constrainPitch
    /\ ~InRange(-89 * S, Pitch, 89 * S)
    /\ Front # Last.pre.Front
    /\ IsOrthonormal(Front, Right, Up)

\* C4: the basis is never stale: after either constructor and after every
\* call, front, right and up are what the recomputation derives from the
\* current yaw, pitch and world_up (front from yaw and pitch, then
\* right = normalize(cross(front, world_up)), then
\* up = normalize(cross(right, front))).
C4_BasisNeverStale ==
    LET f == normalize(EulerAnglesRotate(Yaw, Pitch))
        r == normalize(cross(f, WorldUp))
        u == normalize(cross(r, f))
    IN  Front = f /\ Right = r /\ Up = u

\* A mouse movement that turned the camera: yaw, pitch and the three
\* vectors all differ from what they were.
C4_Witness ==
    /\ Called("ProcessMouseMovement")
    /\ Yaw # Last.pre.Yaw /\ Pitch # Last.pre.Pitch
    /\ Front # Last.pre.Front /\ Right # Last.pre.Right /\ Up # Last.pre.Up
    /\ ~Right.nan

\* The last two calls were ProcessKeyboard(first, dt) and then
\* ProcessKeyboard(second, dt), with the same dt.
KeyboardPair(first, second) ==
    /\ Len(hist) >= 2
    /\ Before.op = "ProcessKeyboard" /\ Before.direction = first
    /\ Last.op = "ProcessKeyboard" /\ Last.direction = second
    /\ Before.deltaTime = Last.deltaTime

\* C5 as stated: ProcessKeyboard(FORWARD, dt) immediately followed by
\* ProcessKeyboard(BACKWARD, dt) returns position to the value it had before
\* the first call, and likewise LEFT followed by RIGHT.
C5_RoundTrip ==
    (KeyboardPair("FORWARD", "BACKWARD") \/ KeyboardPair("LEFT", "RIGHT"))
        => Position = Before.pre.Position

\* The first call of the pair moved position by exactly the step d: no
\* component was rounded, and none is NaN.
ExactStep(from, d, to) ==
    /\ ~from.nan /\ ~d.nan /\ ~to.nan
    /\ to.x = from.x + d.x /\ to.y = from.y + d.y /\ to.z = from.z + d.z

\* The step of the first call of the pair: along the axis, signed.
FirstStep(axis, sign) ==
    LET d == VScale(axis, FMul(Before.pre.MovementSpeed, Before.deltaTime))
    IN  IF d.nan THEN d ELSE Vec(sign * d.x, sign * d.y, sign * d.z)

\* C5 as amended: the round trip returns position to the value it had before
\* the first call whenever the first call's sum position +/- axis * velocity
\* was computed without rounding.
C5_RoundTripWhenExact ==
    /\ (KeyboardPair("FORWARD", "BACKWARD")
           /\ ExactStep(Before.pre.Position, FirstStep(Before.pre.Front, 1),
                        Last.pre.Position))
        => Position = Before.pre.Position
    /\ (KeyboardPair("LEFT", "RIGHT")
           /\ ExactStep(Before.pre.Position, FirstStep(Before.pre.Right, -1),
                        Last.pre.Position))
        => Position = Before.pre.Position

\* FORWARD then BACKWARD with the same dt: the first call moved the camera
\* and the second brought it back.
C5_Witness ==
    /\ KeyboardPair("FORWARD", "BACKWARD")
    /\ Last.pre.Position # Before.pre.Position
    /\ Position = Before.pre.Position

\* C6: ProcessKeyboard applies exactly one translation to position, with
\* velocity = movement_speed * deltaTime: FORWARD gives
\* position + front * velocity, BACKWARD position - front * velocity,
\* RIGHT position + right * velocity, LEFT position - right * velocity.
C6_KeyboardTranslation ==
    Called("ProcessKeyboard") =>
        LET c == Last.pre
            velocity == FMul(c.MovementSpeed, Last.deltaTime)
        IN  Position =
              CASE Last.direction = "FORWARD"  -> VAdd(c.Position, VScale(c.Front, velocity))
                [] Last.direction = "BACKWARD" -> VSub(c.Position, VScale(c.Front, velocity))
                [] Last.direction = "RIGHT"    -> VAdd(c.Position, VScale(c.Right, velocity))
                [] Last.direction = "LEFT"     -> VSub(c.Position, VScale(c.Right, velocity))

\* A step to the LEFT of one second: position moved by 2.5 against right.
C6_Witness ==
    /\ Called("ProcessKeyboard") /\ Last.direction = "LEFT"
    /\ Last.deltaTime = S
    /\ ~Last.pre.Right.nan
    /\ Position # Last.pre.Position

\* C7: ProcessMouseScroll(yoffset) leaves zoom equal to
\* min(45, max(1, zoom_before - yoffset)).
C7_ScrollResult ==
    Called("ProcessMouseScroll") =>
        Zoom = Min(45 * S, Max(1 * S, FSub(Last.pre.Zoom, Last.yoffset)))

\* A scroll that neither clamp touched: 45 - 3 = 42.
C7_Witness ==
    /\ Called("ProcessMouseScroll")
    /\ Last.yoffset = 3 * S
    /\ Zoom = 42 * S

\* C8: default construction yields position = origin, world_up = +Y,
\* yaw = -90, pitch = 0, movement_speed = 2.5, mouse_sensitivity = 0.1,
\* zoom = 45 and, after the basis recomputation, front = (0, 0, -1).
C8_DefaultConstruction ==
    (Len(hist) = 0 /\ ctor.kind = "default") =>
        /\ Position = Vec(0, 0, 0)
        /\ WorldUp = Vec(0, S, 0)
        /\ Yaw = -90 * S
        /\ Pitch = 0
        /\ MovementSpeed = (25 * S) \div 10
        /\ MouseSensitivity = S \div 10
        /\ Zoom = 45 * S
        /\ Front = Vec(0, 0, -S)

\* The default-constructed camera, with its basis: right = +X, up = +Y.
C8_Witness ==
    /\ Len(hist) = 0 /\ ctor.kind = "default"
    /\ Right = Vec(S, 0, 0) /\ Up = Vec(0, S, 0)

\* C9: ProcessMouseMovement sets yaw to yaw_before + xoffset * sensitivity,
\* with no clamp or wraparound, and pitch to
\* pitch_before + yoffset * sensitivity, clamped to [-89, 89] if and only if
\* constrainPitch is true.
C9_MouseMovementResult ==
    Called("ProcessMouseMovement") =>
        LET c == Last.pre
            sum == FAdd(c.Pitch, FMul(Last.yoffset, c.MouseSensitivity))
        IN  /\ Yaw = FAdd(c.Yaw, FMul(Last.xoffset, c.MouseSensitivity))
            /\ Pitch = IF Last.constrainPitch
                       THEN Min(89 * S, Max(-89 * S, sum))
                       ELSE sum

\* An unconstrained call that stored a pitch below -89 as it is, and a yaw
\* that moved.
C9_Witness ==
    /\ Called("ProcessMouseMovement") /\ ~Last.constrainPitch
    /\ Pitch < -89 * S
    /\ Yaw # Last.pre.Yaw

\* C10: ProcessKeyboard changes nothing but position, ProcessMouseScroll
\* nothing but zoom, and GetViewMatrix no field at all; so none of the three
\* changes yaw, pitch, front, right, up or world_up.
C10_Frame ==
    Len(hist) > 0 =>
        /\ Last.op = "ProcessKeyboard" => This = [Last.pre EXCEPT !.Position = Position]
        /\ Last.op = "ProcessMouseScroll" => This = [Last.pre EXCEPT !.Zoom = Zoom]
        /\ Last.op = "GetViewMatrix" => This = Last.pre

\* A scroll that changed the zoom of a camera whose position an earlier
\* ProcessKeyboard had changed.
C10_Witness ==
    /\ Len(hist) >= 2
    /\ Before.op = "ProcessKeyboard" /\ Last.pre.Position # Before.pre.Position
    /\ Last.op = "ProcessMouseScroll" /\ Zoom # Last.pre.Zoom

====
